---- MODULE Spec2Model ----
(***************************************************************************)
(* ai-perf-scan: one run of the command-line scanner (src/src/cli.ts), the *)
(* three scanners it awaits in turn, the aggregator calculateResult, the   *)
(* optional advisory call and the report, as a state machine.              *)
(*                                                                         *)
(* Strings the code inspects are sequences of tokens (a path) or of        *)
(* characters (an API key).  An optional value is <<>> (undefined) or      *)
(* <<v>>.  File content is abstracted to what the regular expressions of   *)
(* the pattern library count in it.                                        *)
(***************************************************************************)
EXTENDS Integers, Sequences, FiniteSets, TLC

VARIABLES
    args,           \* command line and environment: ai, apiKey, envKey, json
    proj,           \* the project on disk: path, manifest, asset and code files
    pc,             \* position of the action callback of cli.ts
    scanOptions,    \* optional ScanOptions returned by parseOptions
    issues,         \* the issues array of runScanners / of the aggregator's caller
    depIssues,      \* the issues array local to scanDependencies
    assetIssues,    \* the issues array local to scanAssets
    codeIssues,     \* the issues array local to scanCode
    imgIdx,         \* next image of the scanImages walk
    fontIdx,        \* next font of the scanFonts walk
    codeIdx,        \* next file of the scanCode walk
    result,         \* optional ScanResult built by calculateResult
    aiSuggestions,  \* optional string returned by getAIAnalysis
    aiOutcome,      \* what the advisory collaborator did when it was called
    aiCalls,        \* number of chat-completion requests sent
    report,         \* optional pair handed to the report renderer
    exitCode,       \* optional process exit code
    trace           \* the calls made so far, in order

vars == <<args, proj, pc, scanOptions, issues, depIssues, assetIssues, codeIssues,
          imgIdx, fontIdx, codeIdx, result, aiSuggestions, aiOutcome, aiCalls,
          report, exitCode, trace>>

-----------------------------------------------------------------------------
(* Optional values and sequence helpers.                                   *)

None == <<>>

Some(v) == <<v>>

IsSome(o) == Len(o) = 1

Get(o) == o[1]

Range(s) == {s[i] : i \in 1..Len(s)}

RECURSIVE Concat(_)
Concat(ss) == IF ss = <<>> THEN <<>> ELSE Head(ss) \o Concat(Tail(ss))

IsPrefix(s, t) == Len(s) <= Len(t) /\ SubSeq(t, 1, Len(s)) = s

\* Array.prototype.filter(pred).length
CountIf(s, Test(_)) == Len(SelectSeq(s, Test))

\* Array.prototype.slice(0, n)
Slice0(s, n) == SubSeq(s, 1, IF Len(s) < n THEN Len(s) ELSE n)

Min(a, b) == IF a < b THEN a ELSE b

Max(a, b) == IF a > b THEN a ELSE b

-----------------------------------------------------------------------------
(* The pattern library (constants).                                        *)

KB == 1024

IMAGE_SIZE_WARNING == 100 * KB
IMAGE_SIZE_CRITICAL == 500 * KB
FONT_SIZE_WARNING == 200 * KB
TOTAL_ASSETS_WARNING == 10 * KB * KB
WEBP_SUGGESTION_THRESHOLD == 50 * KB
RESOLUTION_VARIANT_THRESHOLD == 20 * KB

LARGE_FILE_LINES == 300
CONSOLE_WARNING_THRESHOLD == 3
INLINE_FUNCTION_THRESHOLD == 2
INLINE_STYLE_THRESHOLD == 3
HEAVY_RENDER_MAP_THRESHOLD == 2
MEMO_LINE_THRESHOLD == 50
HIGH_DEPENDENCY_COUNT == 50

SCORE_CRITICAL_PENALTY == 15
SCORE_WARNING_PENALTY == 5
SCORE_INFO_PENALTY == 1
SCORE_BASE_CHECKS == 10

IMAGE_EXTENSIONS == <<".png", ".jpg", ".jpeg", ".gif", ".bmp", ".webp", ".svg">>

FONT_EXTENSIONS == <<".ttf", ".otf", ".woff", ".woff2">>

\* the brace list of the glob of checkTotalAssetsSize
TOTAL_ASSETS_EXTENSIONS ==
    {".png", ".jpg", ".jpeg", ".gif", ".webp", ".svg", ".ttf", ".otf", ".woff", ".woff2"}

\* the extensions of CODE_EXTENSIONS, '**/*.{js,jsx,ts,tsx}'
CODE_EXTENSIONS == {".js", ".jsx", ".ts", ".tsx"}

\* the names of HEAVY_DEPS, in table order
HEAVY_DEPS ==
    <<"moment", "lodash", "axios", "underscore", "jquery", "bluebird", "request",
      "uuid", "node-fetch", "core-js", "ramda", "rxjs", "immutable">>

CRITICAL_DEPS == {"moment", "lodash"}

Severity == {"critical", "warning", "info"}

Category == {"dependency", "asset", "code"}

-----------------------------------------------------------------------------
(* Issue (src/src/types.ts).  file is an optional path; line is 0 when the *)
(* issue has none; count, lines and ellipsis are the computed values the   *)
(* message embeds (0, <<>> and FALSE when it embeds none).                 *)

IssueWith(sev, cat, ttl, f, ln, n, lns, more) ==
    [severity |-> sev, category |-> cat, title |-> ttl, file |-> f,
     line |-> ln, count |-> n, lines |-> lns, ellipsis |-> more]

Issue(sev, cat, ttl, f) == IssueWith(sev, cat, ttl, f, 0, 0, <<>>, FALSE)

IsCritical(i) == i.severity = "critical"

IsWarning(i) == i.severity = "warning"

\* a severity the filter of the summary misspells
IsInfoMisspelt(i) == i.severity = "information"

IsInfo(i) == i.severity = "info"

-----------------------------------------------------------------------------
(* The aggregator, calculateResult.                                        *)

\* the clamp without its floor
ClampNoFloor(score) == Min(100, score)

\* Math.max(0, Math.min(100, score))
Clamp(score) == Max(0, Min(100, score))

SummaryCounts(is) ==
    [critical |-> CountIf(is, IsCritical),
     warning  |-> CountIf(is, IsWarning),
     info     |-> CountIf(is, IsInfo),
     passed   |-> 0]

\* the score with the penalties of warning and info exchanged
ScorePenaltiesSwapped(summary) ==
    Clamp(100 - summary.critical * SCORE_CRITICAL_PENALTY
              - summary.warning * SCORE_INFO_PENALTY
              - summary.info * SCORE_WARNING_PENALTY)

Score(summary) ==
    LET s0 == 100
        s1 == s0 - summary.critical * SCORE_CRITICAL_PENALTY
        s2 == s1 - summary.warning * SCORE_WARNING_PENALTY
        s3 == s2 - summary.info * SCORE_INFO_PENALTY
    IN  Clamp(s3)

\* passed as the checks that found nothing, less the issues found
PassedLessIssues(is, summary) ==
    SCORE_BASE_CHECKS - summary.critical - summary.warning - summary.info

Passed(is, summary) ==
    SCORE_BASE_CHECKS + Len(is) - summary.critical - summary.warning - summary.info

calculateResult(is) ==
    LET summary == SummaryCounts(is)
    IN  [score   |-> Score(summary),
         issues  |-> is,
         summary |-> [summary EXCEPT !.passed = Passed(is, summary)]]

-----------------------------------------------------------------------------
(* The dependency scanner, scanDependencies.                               *)
(*                                                                         *)
(* A manifest is [parses, dependencies, devDependencies, otherProd]:       *)
(* whether JSON.parse returns an object, the declared names the pattern    *)
(* library knows, and the number of further production dependencies under  *)
(* names it does not know.  src is the optional listing of <root>/src as   *)
(* glob returns it, each file [readable, fullImport].                      *)

LODASH_SAMPLE == 50

\* the names of the production dependencies alone
DepNamesProdOnly(packageJson) == packageJson.dependencies

\* Object.keys({ ...dependencies, ...devDependencies })
DepNames(packageJson) == packageJson.dependencies \cup packageJson.devDependencies

\* a heavy dependency reported as a warning whatever its name
HeavyIssueWarning(name) ==
    Issue("warning", "dependency", "Heavy dependency: " \o name, None)

HeavyIssue(name) ==
    Issue(IF name \in CRITICAL_DEPS THEN "critical" ELSE "warning",
          "dependency", "Heavy dependency: " \o name, None)

checkHeavyDependencies(depNames) ==
    LET Declared(name) == name \in depNames
        found == SelectSeq(HEAVY_DEPS, Declared)
    IN  [i \in 1..Len(found) |-> HeavyIssue(found[i])]

HasFullImport(f) == f.readable /\ f.fullImport

detectFullLodashImport(files) ==
    \E i \in 1..Len(Slice0(files, LODASH_SAMPLE)) : HasFullImport(files[i])

checkLodashImports(depNames, src) ==
    IF "lodash" \notin depNames \/ "lodash-es" \in depNames THEN <<>>
    ELSE IF ~IsSome(src) THEN <<>>
    ELSE IF detectFullLodashImport(Get(src))
         THEN <<Issue("warning", "dependency", "Full lodash import detected", None)>>
         ELSE <<>>

checkDuplicateLibraries(depNames) ==
    (IF "axios" \in depNames /\ "node-fetch" \in depNames
     THEN <<Issue("warning", "dependency", "Duplicate HTTP libraries", None)>>
     ELSE <<>>)
    \o
    (IF "moment" \in depNames /\ "date-fns" \in depNames
     THEN <<Issue("warning", "dependency", "Duplicate date libraries", None)>>
     ELSE <<>>)

\* the count with the development dependencies in it
ProdDepsWithDev(packageJson) ==
    Cardinality(packageJson.dependencies \cup packageJson.devDependencies)
    + packageJson.otherProd

\* Object.keys(packageJson.dependencies || {}).length
ProdDeps(packageJson) == Cardinality(packageJson.dependencies) + packageJson.otherProd

checkDependencyCount(packageJson) ==
    LET prodDeps == ProdDeps(packageJson)
    IN  IF prodDeps > HIGH_DEPENDENCY_COUNT
        THEN <<IssueWith("warning", "dependency", "High dependency count", None,
                         0, prodDeps, <<>>, FALSE)>>
        ELSE <<>>

\* scanDependencies with the dependency count checked first
scanDependenciesCountFirst(p) ==
    IF ~p.hasManifest THEN [threw |-> FALSE, issues |-> <<>>]
    ELSE IF ~p.manifest.parses THEN [threw |-> TRUE, issues |-> <<>>]
    ELSE LET depNames == DepNames(p.manifest)
         IN  [threw  |-> FALSE,
              issues |-> checkDependencyCount(p.manifest)
                         \o checkHeavyDependencies(depNames)
                         \o checkLodashImports(depNames, p.src)
                         \o checkDuplicateLibraries(depNames)]

\* scanDependencies with the manifest read under a catch that skips it
scanDependenciesSkipsBadManifest(p) ==
    IF ~p.hasManifest \/ ~p.manifest.parses THEN [threw |-> FALSE, issues |-> <<>>]
    ELSE LET depNames == DepNames(p.manifest)
         IN  [threw  |-> FALSE,
              issues |-> checkHeavyDependencies(depNames)
                         \o checkLodashImports(depNames, p.src)
                         \o checkDuplicateLibraries(depNames)
                         \o checkDependencyCount(p.manifest)]

\* What scanDependencies does on project p: it returns its issues, or
\* JSON.parse throws and nothing is returned.
scanDependencies(p) ==
    IF ~p.hasManifest THEN [threw |-> FALSE, issues |-> <<>>]
    ELSE IF ~p.manifest.parses THEN [threw |-> TRUE, issues |-> <<>>]
    ELSE LET depNames == DepNames(p.manifest)
         IN  [threw  |-> FALSE,
              issues |-> checkHeavyDependencies(depNames)
                         \o checkLodashImports(depNames, p.src)
                         \o checkDuplicateLibraries(depNames)
                         \o checkDependencyCount(p.manifest)]

-----------------------------------------------------------------------------
(* Files and paths.  A file on disk is [dir, base, ext, ...]: the tokens   *)
(* of its directory relative to the project root, the tokens of its name   *)
(* without the extension, and its extension.  Its path is the              *)
(* concatenation of these tokens.                                          *)

\* the `file` glob returns, relative to the project root
RelPath(f) == f.dir \o f.base \o <<f.ext>>

\* path.join(projectPath, file)
FilePath(root, f) == root \o RelPath(f)

\* fs.existsSync(path) on a tree holding `files`: a file that cannot be
\* stat'ed does not exist for existsSync either
existsSync(root, files, path) ==
    \E i \in 1..Len(files) : files[i].statOk /\ FilePath(root, files[i]) = path

\* String.prototype.replace(pattern, by) with a string pattern: the first
\* occurrence only
RECURSIVE ReplaceFirst(_, _, _)
ReplaceFirst(s, pattern, by) ==
    IF s = <<>> THEN <<>>
    ELSE IF Head(s) = pattern THEN <<by>> \o Tail(s)
    ELSE <<Head(s)>> \o ReplaceFirst(Tail(s), pattern, by)

\* glob('**/*<ext>') over the tree, in walk order
GlobExt(files, ext) ==
    LET Matches(f) == f.ext = ext
    IN  SelectSeq(files, Matches)

\* the files scanImages visits, in the order it visits them
ImageWalk(files) ==
    Concat([i \in 1..Len(IMAGE_EXTENSIONS) |-> GlobExt(files, IMAGE_EXTENSIONS[i])])

\* the files scanFonts visits, in the order it visits them
FontWalk(files) ==
    Concat([i \in 1..Len(FONT_EXTENSIONS) |-> GlobExt(files, FONT_EXTENSIONS[i])])

-----------------------------------------------------------------------------
(* The asset scanner, scanAssets.  An asset file is                        *)
(* [dir, base, ext, size, statOk].                                         *)

\* the size check with its thresholds compared by >=
checkImageSizeAtLeast(f) ==
    IF f.size >= IMAGE_SIZE_CRITICAL
    THEN <<Issue("critical", "asset", "Very large image", Some(RelPath(f)))>>
    ELSE IF f.size >= IMAGE_SIZE_WARNING
    THEN <<Issue("warning", "asset", "Large image", Some(RelPath(f)))>>
    ELSE <<>>

checkImageSize(f) ==
    IF f.size > IMAGE_SIZE_CRITICAL
    THEN <<Issue("critical", "asset", "Very large image", Some(RelPath(f)))>>
    ELSE IF f.size > IMAGE_SIZE_WARNING
    THEN <<Issue("warning", "asset", "Large image", Some(RelPath(f)))>>
    ELSE <<>>

checkWebPAlternative(root, files, f) ==
    LET ext == f.ext
        isConvertible == ext = ".png" \/ ext = ".jpg" \/ ext = ".jpeg"
    IN  IF isConvertible /\ f.size > WEBP_SUGGESTION_THRESHOLD
        THEN LET webpExists ==
                     existsSync(root, files,
                                ReplaceFirst(FilePath(root, f), ext, ".webp"))
             IN  IF ~webpExists
                 THEN <<Issue("info", "asset", "Consider WebP format", Some(RelPath(f)))>>
                 ELSE <<>>
        ELSE <<>>

\* the resolution check looking for the @2x sibling only
checkResolutionVariantsOnly2x(root, files, f) ==
    LET basename == f.base
    IN  IF "@2x" \in Range(basename) \/ "@3x" \in Range(basename) THEN <<>>
        ELSE LET dir == root \o f.dir
                 has2x == existsSync(root, files, dir \o basename \o <<"@2x", f.ext>>)
             IN  IF ~has2x /\ f.size > RESOLUTION_VARIANT_THRESHOLD
                 THEN <<Issue("info", "asset", "Missing resolution variants",
                              Some(RelPath(f)))>>
                 ELSE <<>>

checkResolutionVariants(root, files, f) ==
    LET basename == f.base
    IN  IF "@2x" \in Range(basename) \/ "@3x" \in Range(basename) THEN <<>>
        ELSE LET dir == root \o f.dir
                 has2x == existsSync(root, files, dir \o basename \o <<"@2x", f.ext>>)
                 has3x == existsSync(root, files, dir \o basename \o <<"@3x", f.ext>>)
             IN  IF ~has2x /\ ~has3x /\ f.size > RESOLUTION_VARIANT_THRESHOLD
                 THEN <<Issue("info", "asset", "Missing resolution variants",
                              Some(RelPath(f)))>>
                 ELSE <<>>

\* the three checks of scanImages 42-44 on a file statSync succeeded on
imageChecks(root, files, f) ==
    checkImageSize(f)
    \o checkWebPAlternative(root, files, f)
    \o checkResolutionVariants(root, files, f)

\* the loop body with a catch that reports the file it could not stat
scanImageFileReportsError(root, files, f) ==
    IF ~f.statOk
    THEN <<Issue("warning", "asset", "Unreadable file", Some(RelPath(f)))>>
    ELSE imageChecks(root, files, f)

\* the body of the loop of scanImages for one file: a failing statSync is
\* caught and the file skipped
scanImageFile(root, files, f) ==
    IF ~f.statOk THEN <<>> ELSE imageChecks(root, files, f)

checkFontSize(f) ==
    IF f.size > FONT_SIZE_WARNING
    THEN <<Issue("warning", "asset", "Large font file", Some(RelPath(f)))>>
    ELSE <<>>

checkFontFormat(f) ==
    IF f.ext = ".ttf" \/ f.ext = ".otf"
    THEN <<Issue("info", "asset", "Unoptimized font format", Some(RelPath(f)))>>
    ELSE <<>>

\* the two checks of scanFonts 146-147 on a file statSync succeeded on
fontChecks(f) == checkFontSize(f) \o checkFontFormat(f)

\* the body of the loop of scanFonts for one file
scanFontFile(f) ==
    IF ~f.statOk THEN <<>> ELSE fontChecks(f)

RECURSIVE TotalSize(_)
TotalSize(files) ==
    IF files = <<>> THEN 0
    ELSE (IF Head(files).statOk THEN Head(files).size ELSE 0) + TotalSize(Tail(files))

checkTotalAssetsSize(files) ==
    LET InGlob(f) == f.ext \in TOTAL_ASSETS_EXTENSIONS
        allAssets == SelectSeq(files, InGlob)
        totalSize == TotalSize(allAssets)
    IN  IF totalSize > TOTAL_ASSETS_WARNING
        THEN <<Issue("warning", "asset", "High total assets size", None)>>
        ELSE <<>>

-----------------------------------------------------------------------------
(* The code scanner, scanCode.  A source file is [dir, base, ext, statOk]  *)
(* (statOk: readFileSync succeeds) and `c`, what the patterns find in its  *)
(* content: lineCount = content.split('\n').length; consoleMatches =       *)
(* matches of CONSOLE_LOG_PATTERN in the content; consoleLines = the       *)
(* numbers of the lines the pattern matches; inlineFunctions,              *)
(* inlineStyles, effectsNoDeps, mapCalls, views = match counts;            *)
(* nonTestUrls = URL matches left by the filter; the others say whether    *)
(* the content includes a text.                                            *)

CodeIssue(sev, ttl, f) == Issue(sev, "code", ttl, Some(RelPath(f)))

checkFileSize(f) ==
    IF f.c.lineCount > LARGE_FILE_LINES
    THEN <<IssueWith("warning", "code", "Large file", Some(RelPath(f)),
                     0, f.c.lineCount, <<>>, FALSE)>>
    ELSE <<>>

checkConsoleStatements(f) ==
    LET matches == f.c.consoleMatches
        consoleLines == f.c.consoleLines
    IN  IF matches = 0 THEN <<>>
        ELSE IF Len(consoleLines) > CONSOLE_WARNING_THRESHOLD
        THEN <<IssueWith("warning", "code", "Multiple console statements",
                         Some(RelPath(f)), consoleLines[1], matches,
                         Slice0(consoleLines, 5), Len(consoleLines) > 5)>>
        ELSE IF Len(consoleLines) > 0
        THEN <<IssueWith("info", "code", "Console statement found",
                         Some(RelPath(f)), consoleLines[1], matches, <<>>, FALSE)>>
        ELSE <<>>

checkInlineFunctions(f) ==
    IF f.c.inlineFunctions > INLINE_FUNCTION_THRESHOLD
    THEN <<IssueWith("warning", "code", "Inline functions in render",
                     Some(RelPath(f)), 0, f.c.inlineFunctions, <<>>, FALSE)>>
    ELSE <<>>

checkInlineStyles(f) ==
    IF f.c.inlineStyles > INLINE_STYLE_THRESHOLD
    THEN <<IssueWith("info", "code", "Multiple inline styles",
                     Some(RelPath(f)), 0, f.c.inlineStyles, <<>>, FALSE)>>
    ELSE <<>>

checkUseEffectDeps(f) ==
    IF f.c.effectsNoDeps > 0
    THEN <<CodeIssue("warning", "useEffect without dependencies", f)>>
    ELSE <<>>

checkMemoization(f) ==
    IF ~f.c.exportsComponent THEN <<>>
    ELSE LET hasMemo == f.c.memo
             hasHeavyRender ==
                 f.c.mapCalls > HEAVY_RENDER_MAP_THRESHOLD \/ f.c.flatList
         IN  IF ~hasMemo /\ hasHeavyRender /\ f.c.lineCount > MEMO_LINE_THRESHOLD
             THEN <<CodeIssue("info", "Consider memoization", f)>>
             ELSE <<>>

\* file.includes(text)
PathIncludes(f, text) == text \in Range(RelPath(f))

checkSyncFileOps(f) ==
    LET hasSyncOps == f.c.syncOps
        isAllowed == PathIncludes(f, "cli") \/ PathIncludes(f, "script")
                     \/ PathIncludes(f, "config")
    IN  IF hasSyncOps /\ ~isAllowed
        THEN <<CodeIssue("warning", "Synchronous file operation", f)>>
        ELSE <<>>

checkHardcodedUrls(f) ==
    IF f.c.nonTestUrls > 0
    THEN <<IssueWith("info", "code", "Hardcoded URLs", Some(RelPath(f)),
                     0, f.c.nonTestUrls, <<>>, FALSE)>>
    ELSE <<>>

checkLargeObjects(f) ==
    IF f.c.largeObjects > 0
    THEN <<CodeIssue("info", "Large inline object", f)>>
    ELSE <<>>

checkReactNativePatterns(f) ==
    IF ~f.c.reactNative THEN <<>>
    ELSE (IF f.c.image /\ ~f.c.resizeMode /\ f.c.source
          THEN <<CodeIssue("info", "Image without resizeMode", f)>>
          ELSE <<>>)
         \o
         (IF f.c.scrollView /\ f.c.views > 10 /\ ~f.c.flatList
          THEN <<CodeIssue("warning", "ScrollView with many items", f)>>
          ELSE <<>>)

\* the checks of scanCode 36-49 on a file readFileSync succeeded on
codeChecks(f) ==
    checkFileSize(f)
    \o checkConsoleStatements(f)
    \o (IF f.ext = ".jsx" \/ f.ext = ".tsx"
        THEN checkInlineFunctions(f) \o checkInlineStyles(f)
             \o checkUseEffectDeps(f) \o checkMemoization(f)
        ELSE <<>>)
    \o checkSyncFileOps(f)
    \o checkHardcodedUrls(f)
    \o checkLargeObjects(f)
    \o checkReactNativePatterns(f)

\* the body of the loop of scanCode for one file: a failing readFileSync is
\* caught and the file skipped
scanCodeFile(f) ==
    IF ~f.statOk THEN <<>> ELSE codeChecks(f)

-----------------------------------------------------------------------------
(* The advisory collaborator (getAISuggestions) and the command line       *)
(* (parseOptions).  An API key is a sequence of characters.  An outcome of *)
(* the collaborator is [constructs, resolves, content, error]: whether     *)
(* `new OpenAI` returns, whether the request resolves, the content of its  *)
(* first choice ("" when there is none), and the value it rejects with,    *)
(* [isError, message], message a sequence of text tokens.                  *)

StartsWith(s, prefix) ==
    Len(s) >= Len(prefix) /\ SubSeq(s, 1, Len(prefix)) = prefix

\* the key check with the length compared by >=
validateApiKeyAtLeast20(apiKey) ==
    StartsWith(apiKey, <<"s", "k", "-">>) /\ Len(apiKey) >= 20

validateApiKey(apiKey) == StartsWith(apiKey, <<"s", "k", "-">>) /\ Len(apiKey) > 20

\* JavaScript truthiness of an optional string
Truthy(o) == IsSome(o) /\ Get(o) # <<>>

\* a || b
OrElse(a, b) == IF Truthy(a) THEN a ELSE b

\* What parseOptions does: it returns the ScanOptions, or the process exits.
parseOptions(p, a) ==
    LET options == [ai     |-> a.ai,
                    apiKey |-> OrElse(a.apiKey, a.envKey),
                    json   |-> a.json]
    IN  IF ~p.pathExists THEN [exit |-> TRUE, options |-> None]
        ELSE IF ~p.hasManifest THEN [exit |-> TRUE, options |-> None]
        ELSE IF options.ai /\ ~Truthy(options.apiKey)
             THEN [exit |-> TRUE, options |-> None]
        ELSE IF options.ai /\ ~validateApiKey(Get(options.apiKey))
             THEN [exit |-> TRUE, options |-> None]
        ELSE [exit |-> FALSE, options |-> Some(options)]

RECURSIVE Join(_)
Join(tokens) == IF tokens = <<>> THEN "" ELSE Head(tokens) \o Join(Tail(tokens))

handleError(error) ==
    IF error.isError
    THEN IF "API key" \in Range(error.message)
         THEN "Invalid API key. Please check your OpenAI API key."
         ELSE IF "quota" \in Range(error.message)
         THEN "API quota exceeded. Please check your OpenAI account."
         ELSE "AI analysis failed: " \o Join(error.message)
    ELSE "AI analysis failed. Please try again."

\* What getAISuggestions does when the collaborator behaves as `o`: the
\* client is built before the try block, the request is sent inside it.
getAISuggestions(o) ==
    IF ~o.constructs THEN [threw |-> TRUE, text |-> ""]
    ELSE IF o.resolves
         THEN [threw |-> FALSE,
               text  |-> IF o.content # "" THEN o.content
                         ELSE "Unable to generate AI suggestions."]
    ELSE [threw |-> FALSE, text |-> handleError(o.error)]

\* an exit code that also fails the run on warnings
exitCodeOnAnyProblem(r) ==
    IF r.summary.critical > 0 \/ r.summary.warning > 0 THEN 1 ELSE 0

\* cli.ts 61-63: process.exit(1) on a critical issue; otherwise the callback
\* returns and the process ends with code 0
exitCodeFor(r) == IF r.summary.critical > 0 THEN 1 ELSE 0

\* What outputResults hands to the reporter: printJSON gets the advisory
\* text as it is, the text report prints it when it is truthy.
outputResults(options, r, suggestions) ==
    [json          |-> options.json,
     result        |-> r,
     aiSuggestions |-> IF options.json \/ (IsSome(suggestions) /\ Get(suggestions) # "")
                       THEN suggestions ELSE None]

-----------------------------------------------------------------------------
(* The inputs of a run: bounds and catalogues.                             *)

MaxAssetFiles == 2

MaxCodeFiles == 2

MaxAggIssues == 10

\* the sequences without repetition of at most n elements of S
Lists(S, n) ==
    UNION {{s \in [1..k -> S] : \A i, j \in 1..k : i # j => s[i] # s[j]} : k \in 0..n}

Chars(n) == [i \in 1..n |-> "x"]

GoodKey == <<"s", "k", "-">> \o Chars(18)

ShortKey == <<"s", "k", "-">> \o Chars(17)

WrongPrefixKey == <<"p", "k", "-">> \o Chars(18)

\* the --api-key option and the OPENAI_API_KEY variable of a run
Credentials ==
    { <<None, None>>,
      <<None, Some(GoodKey)>>,
      <<Some(<<>>), Some(GoodKey)>>,
      <<Some(ShortKey), None>>,
      <<Some(WrongPrefixKey), Some(GoodKey)>>,
      <<Some(GoodKey), None>> }

Args ==
    { [ai |-> ai, apiKey |-> k[1], envKey |-> k[2], json |-> json] :
        ai \in BOOLEAN, k \in Credentials, json \in BOOLEAN }

Manifest(ok, prod, dev, other) ==
    [parses |-> ok, dependencies |-> prod, devDependencies |-> dev, otherProd |-> other]

SrcFile(ok, full) == [readable |-> ok, fullImport |-> full]

\* the manifest and the src directory of a project
Packages ==
    { [manifest |-> Manifest(FALSE, {}, {}, 0), src |-> None],
      [manifest |-> Manifest(TRUE, {}, {}, HIGH_DEPENDENCY_COUNT), src |-> None],
      [manifest |-> Manifest(TRUE, {"moment", "lodash"}, {"date-fns"},
                             HIGH_DEPENDENCY_COUNT - 1),
       src |-> Some(<<SrcFile(TRUE, FALSE), SrcFile(TRUE, TRUE)>>)],
      [manifest |-> Manifest(TRUE, {"axios", "uuid"}, {"node-fetch", "lodash"},
                             HIGH_DEPENDENCY_COUNT - 1),
       src |-> Some(<<SrcFile(FALSE, TRUE)>>)],
      [manifest |-> Manifest(TRUE, {"axios", "underscore", "jquery", "bluebird",
                                    "request", "uuid", "node-fetch", "core-js",
                                    "ramda", "rxjs", "immutable"}, {},
                             HIGH_DEPENDENCY_COUNT - 10),
       src |-> None] }

AssetFile(d, b, e, n, ok) == [dir |-> d, base |-> b, ext |-> e, size |-> n, statOk |-> ok]

AssetCatalog ==
    { AssetFile(<<"assets/">>, <<"hero">>, ".jpg", IMAGE_SIZE_CRITICAL + 1, TRUE),
      AssetFile(<<"assets/">>, <<"gone">>, ".png", IMAGE_SIZE_CRITICAL + 1, FALSE),
      AssetFile(<<"fonts/">>, <<"body">>, ".ttf", FONT_SIZE_WARNING + 1, TRUE) }

Content(n, matches, lns, fns, fx, sync, urls) ==
    [lineCount |-> n, consoleMatches |-> matches, consoleLines |-> lns,
     inlineFunctions |-> fns, inlineStyles |-> 0, effectsNoDeps |-> fx,
     exportsComponent |-> TRUE, memo |-> FALSE, mapCalls |-> 0, flatList |-> FALSE,
     syncOps |-> sync, nonTestUrls |-> urls, largeObjects |-> 0,
     reactNative |-> FALSE, image |-> FALSE, resizeMode |-> FALSE, source |-> FALSE,
     scrollView |-> FALSE, views |-> 0]

CodeFile(d, b, e, ok, content) ==
    [dir |-> d, base |-> b, ext |-> e, statOk |-> ok, c |-> content]

CodeCatalog ==
    { CodeFile(<<"src/">>, <<"util">>, ".ts", TRUE,
               Content(40, 1, <<7>>, 0, 0, TRUE, 0)),
      CodeFile(<<"src/">>, <<"App">>, ".tsx", TRUE,
               Content(LARGE_FILE_LINES + 1, 4, <<3, 9, 12, 20>>, 3, 1, TRUE, 2)),
      CodeFile(<<"src/">>, <<"locked">>, ".js", FALSE,
               Content(LARGE_FILE_LINES + 1, 4, <<3, 9, 12, 20>>, 0, 0, TRUE, 2)) }

Project(there, hasPkg, pk, as, cs) ==
    [root |-> <<"/work/app/">>, pathExists |-> there, hasManifest |-> hasPkg,
     manifest |-> pk.manifest, src |-> pk.src, assets |-> as, code |-> cs]

NoPackage == [manifest |-> Manifest(FALSE, {}, {}, 0), src |-> None]

\* a path that does not exist, a directory without package.json, a project
Projects ==
    {Project(FALSE, FALSE, NoPackage, <<>>, <<>>)}
    \cup
    {Project(TRUE, FALSE, NoPackage, as, cs) :
        as \in Lists(AssetCatalog, MaxAssetFiles), cs \in Lists(CodeCatalog, MaxCodeFiles)}
    \cup
    {Project(TRUE, TRUE, pk, as, cs) :
        pk \in Packages,
        as \in Lists(AssetCatalog, MaxAssetFiles), cs \in Lists(CodeCatalog, MaxCodeFiles)}

NoError == [isError |-> FALSE, message |-> <<>>]

Failure(tokens) == [isError |-> TRUE, message |-> tokens]

AIOutcome(built, ok, text, err) ==
    [constructs |-> built, resolves |-> ok, content |-> text, error |-> err]

AIOutcomes ==
    { AIOutcome(FALSE, FALSE, "", Failure(<<"cannot build the client">>)),
      AIOutcome(TRUE, TRUE, "Replace moment with dayjs.", NoError),
      AIOutcome(TRUE, TRUE, "", NoError),
      AIOutcome(TRUE, FALSE, "", Failure(<<"401 Incorrect ", "API key", " provided">>)),
      AIOutcome(TRUE, FALSE, "", Failure(<<"429 You exceeded your current ", "quota">>)),
      AIOutcome(TRUE, FALSE, "", Failure(<<"socket hang up">>)),
      AIOutcome(TRUE, FALSE, "", NoError) }

-----------------------------------------------------------------------------
(* One run of the command: the action callback of cli.ts.                  *)

Init ==
    /\ args \in Args
    /\ proj \in Projects
    /\ pc = "parseOptions"
    /\ scanOptions = None
    /\ issues = <<>>
    /\ depIssues = <<>>
    /\ assetIssues = <<>>
    /\ codeIssues = <<>>
    /\ imgIdx = 1
    /\ fontIdx = 1
    /\ codeIdx = 1
    /\ result = None
    /\ aiSuggestions = None
    /\ aiOutcome = None
    /\ aiCalls = 0
    /\ report = None
    /\ exitCode = None
    /\ trace = <<>>

\* process.exit(code): nothing runs after it
Exit(code, events) ==
    /\ exitCode' = Some(code)
    /\ pc' = "exited"
    /\ trace' = trace \o events \o <<"exit">>

\* cli.ts 38-50: parseOptions, which exits the process on a bad configuration
ParseOptions ==
    /\ pc = "parseOptions"
    /\ LET r == parseOptions(proj, args)
       IN  IF r.exit
           THEN /\ Exit(1, <<"parseOptions">>)
                /\ UNCHANGED scanOptions
           ELSE /\ scanOptions' = r.options
                /\ pc' = "scanDependencies"
                /\ trace' = trace \o <<"parseOptions">>
                /\ UNCHANGED exitCode
    /\ UNCHANGED <<args, proj, issues, depIssues, assetIssues, codeIssues, imgIdx,
                   fontIdx, codeIdx, result, aiSuggestions, aiOutcome, aiCalls, report>>

\* runScanners 124-127: the dependency scanner; what it throws reaches the
\* catch of the action callback (64-68)
ScanDependencies ==
    /\ pc = "scanDependencies"
    /\ LET r == scanDependencies(proj)
       IN  IF r.threw
           THEN /\ Exit(1, <<"scanDependencies", "catch">>)
                /\ UNCHANGED <<depIssues, issues>>
           ELSE /\ depIssues' = r.issues
                /\ issues' = issues \o r.issues
                /\ pc' = "scanAssets"
                /\ trace' = trace \o <<"scanDependencies">>
                /\ UNCHANGED exitCode
    /\ UNCHANGED <<args, proj, scanOptions, assetIssues, codeIssues, imgIdx, fontIdx,
                   codeIdx, result, aiSuggestions, aiOutcome, aiCalls, report>>

\* scanAssets 16-18: a fresh issues array, then the import of glob
ScanAssetsBegin ==
    /\ pc = "scanAssets"
    /\ assetIssues' = <<>>
    /\ imgIdx' = 1
    /\ fontIdx' = 1
    /\ pc' = "scanAssets.loop"
    /\ trace' = trace \o <<"scanAssets">>
    /\ UNCHANGED <<args, proj, scanOptions, issues, depIssues, codeIssues, codeIdx,
                   result, aiSuggestions, aiOutcome, aiCalls, report, exitCode>>

\* scanImages 38-48: one file of the walk
ScanImage ==
    /\ pc = "scanAssets.loop"
    /\ imgIdx <= Len(ImageWalk(proj.assets))
    /\ assetIssues' = assetIssues
           \o scanImageFile(proj.root, proj.assets, ImageWalk(proj.assets)[imgIdx])
    /\ imgIdx' = imgIdx + 1
    /\ UNCHANGED <<args, proj, pc, scanOptions, issues, depIssues, codeIssues, fontIdx,
                   codeIdx, result, aiSuggestions, aiOutcome, aiCalls, report,
                   exitCode, trace>>

\* scanFonts 143-151: one file of the walk
ScanFont ==
    /\ pc = "scanAssets.loop"
    /\ imgIdx > Len(ImageWalk(proj.assets))
    /\ fontIdx <= Len(FontWalk(proj.assets))
    /\ assetIssues' = assetIssues \o scanFontFile(FontWalk(proj.assets)[fontIdx])
    /\ fontIdx' = fontIdx + 1
    /\ UNCHANGED <<args, proj, pc, scanOptions, issues, depIssues, codeIssues, imgIdx,
                   codeIdx, result, aiSuggestions, aiOutcome, aiCalls, report,
                   exitCode, trace>>

\* checkTotalAssetsSize, the return of scanAssets and the push of
\* runScanners 130
CheckTotalAssetsSize ==
    /\ pc = "scanAssets.loop"
    /\ imgIdx > Len(ImageWalk(proj.assets))
    /\ fontIdx > Len(FontWalk(proj.assets))
    /\ assetIssues' = assetIssues \o checkTotalAssetsSize(proj.assets)
    /\ issues' = issues \o assetIssues'
    /\ pc' = "scanCode"
    /\ UNCHANGED <<args, proj, scanOptions, depIssues, codeIssues, imgIdx, fontIdx,
                   codeIdx, result, aiSuggestions, aiOutcome, aiCalls, report,
                   exitCode, trace>>

\* scanCode 22-29: a fresh issues array, then the glob of the source files
ScanCodeBegin ==
    /\ pc = "scanCode"
    /\ codeIssues' = <<>>
    /\ codeIdx' = 1
    /\ pc' = "scanCode.loop"
    /\ trace' = trace \o <<"scanCode">>
    /\ UNCHANGED <<args, proj, scanOptions, issues, depIssues, assetIssues, imgIdx,
                   fontIdx, result, aiSuggestions, aiOutcome, aiCalls, report, exitCode>>

\* scanCode 31-53: one file of the walk
ScanCodeFile ==
    /\ pc = "scanCode.loop"
    /\ codeIdx <= Len(proj.code)
    /\ codeIssues' = codeIssues \o scanCodeFile(proj.code[codeIdx])
    /\ codeIdx' = codeIdx + 1
    /\ UNCHANGED <<args, proj, pc, scanOptions, issues, depIssues, assetIssues, imgIdx,
                   fontIdx, result, aiSuggestions, aiOutcome, aiCalls, report,
                   exitCode, trace>>

\* the return of scanCode and the push of runScanners 133
ScanCodeReturn ==
    /\ pc = "scanCode.loop"
    /\ codeIdx > Len(proj.code)
    /\ issues' = issues \o codeIssues
    /\ pc' = "calculateResult"
    /\ UNCHANGED <<args, proj, scanOptions, depIssues, assetIssues, codeIssues, imgIdx,
                   fontIdx, codeIdx, result, aiSuggestions, aiOutcome, aiCalls, report,
                   exitCode, trace>>

\* cli.ts 56
CalculateResult ==
    /\ pc = "calculateResult"
    /\ result' = Some(calculateResult(issues))
    /\ pc' = "getAIAnalysis"
    /\ trace' = trace \o <<"calculateResult">>
    /\ UNCHANGED <<args, proj, scanOptions, issues, depIssues, assetIssues, codeIssues,
                   imgIdx, fontIdx, codeIdx, aiSuggestions, aiOutcome, aiCalls, report,
                   exitCode>>

\* getAIAnalysis sending the request a second time when the first fails
GetAIAnalysisRetrying ==
    /\ pc = "getAIAnalysis"
    /\ LET options == Get(scanOptions)
       IN  IF ~options.ai \/ ~Truthy(options.apiKey)
           THEN /\ aiSuggestions' = None
                /\ pc' = "outputResults"
                /\ trace' = trace \o <<"getAIAnalysis">>
                /\ UNCHANGED <<aiOutcome, aiCalls, exitCode>>
           ELSE \E o \in AIOutcomes :
                    LET r == getAISuggestions(o)
                    IN  /\ aiOutcome' = Some(o)
                        /\ aiCalls' = aiCalls + (IF ~o.constructs THEN 0
                                                 ELSE IF o.resolves THEN 1 ELSE 2)
                        /\ IF r.threw
                           THEN /\ Exit(1, <<"getAIAnalysis", "getAISuggestions", "catch">>)
                                /\ UNCHANGED aiSuggestions
                           ELSE /\ aiSuggestions' = Some(r.text)
                                /\ pc' = "outputResults"
                                /\ trace' = trace \o <<"getAIAnalysis", "getAISuggestions">>
                                /\ UNCHANGED exitCode
    /\ UNCHANGED <<args, proj, scanOptions, issues, depIssues, assetIssues, codeIssues,
                   imgIdx, fontIdx, codeIdx, result, report>>

\* cli.ts 57: getAIAnalysis; the collaborator is called when advisory mode
\* is on, and behaves in one of the ways of AIOutcomes
GetAIAnalysis ==
    /\ pc = "getAIAnalysis"
    /\ LET options == Get(scanOptions)
       IN  IF ~options.ai \/ ~Truthy(options.apiKey)
           THEN /\ aiSuggestions' = None
                /\ pc' = "outputResults"
                /\ trace' = trace \o <<"getAIAnalysis">>
                /\ UNCHANGED <<aiOutcome, aiCalls, exitCode>>
           ELSE \E o \in AIOutcomes :
                    LET r == getAISuggestions(o)
                    IN  /\ aiOutcome' = Some(o)
                        /\ aiCalls' = aiCalls + (IF o.constructs THEN 1 ELSE 0)
                        /\ IF r.threw
                           THEN /\ Exit(1, <<"getAIAnalysis", "getAISuggestions", "catch">>)
                                /\ UNCHANGED aiSuggestions
                           ELSE /\ aiSuggestions' = Some(r.text)
                                /\ pc' = "outputResults"
                                /\ trace' = trace \o <<"getAIAnalysis", "getAISuggestions">>
                                /\ UNCHANGED exitCode
    /\ UNCHANGED <<args, proj, scanOptions, issues, depIssues, assetIssues, codeIssues,
                   imgIdx, fontIdx, codeIdx, result, report>>

\* cli.ts 59
OutputResults ==
    /\ pc = "outputResults"
    /\ report' = Some(outputResults(Get(scanOptions), Get(result), aiSuggestions))
    /\ pc' = "exitCheck"
    /\ trace' = trace \o <<"outputResults">>
    /\ UNCHANGED <<args, proj, scanOptions, issues, depIssues, assetIssues, codeIssues,
                   imgIdx, fontIdx, codeIdx, result, aiSuggestions, aiOutcome, aiCalls,
                   exitCode>>

\* cli.ts 61-63, after the report
ExitCheck ==
    /\ pc = "exitCheck"
    /\ Exit(exitCodeFor(Get(result)), <<>>)
    /\ UNCHANGED <<args, proj, scanOptions, issues, depIssues, assetIssues, codeIssues,
                   imgIdx, fontIdx, codeIdx, result, aiSuggestions, aiOutcome, aiCalls,
                   report>>

Next ==
    \/ ParseOptions
    \/ ScanDependencies
    \/ ScanAssetsBegin
    \/ ScanImage
    \/ ScanFont
    \/ CheckTotalAssetsSize
    \/ ScanCodeBegin
    \/ ScanCodeFile
    \/ ScanCodeReturn
    \/ CalculateResult
    \/ GetAIAnalysis
    \/ OutputResults
    \/ ExitCheck

Spec == Init /\ [][Next]_vars

-----------------------------------------------------------------------------
(* The aggregator on its own: calculateResult applied to every issue list  *)
(* of at most MaxAggIssues issues, the lists grown one issue at a time.    *)

AggCatalog ==
    { HeavyIssue("moment"),
      Issue("warning", "asset", "Large image", Some(<<"assets/", "logo", ".jpg">>)),
      IssueWith("info", "code", "Console statement found",
                Some(<<"src/", "util", ".ts">>), 7, 1, <<>>, FALSE) }

AggInit ==
    /\ args = [ai |-> FALSE, apiKey |-> None, envKey |-> None, json |-> FALSE]
    /\ proj = Project(TRUE, TRUE, NoPackage, <<>>, <<>>)
    /\ pc = "aggregate"
    /\ scanOptions = None
    /\ issues = <<>>
    /\ depIssues = <<>>
    /\ assetIssues = <<>>
    /\ codeIssues = <<>>
    /\ imgIdx = 1
    /\ fontIdx = 1
    /\ codeIdx = 1
    /\ result = None
    /\ aiSuggestions = None
    /\ aiOutcome = None
    /\ aiCalls = 0
    /\ report = None
    /\ exitCode = None
    /\ trace = <<>>

\* calculateResult on the empty list
AggCalculate ==
    /\ pc = "aggregate"
    /\ result = None
    /\ result' = Some(calculateResult(issues))
    /\ UNCHANGED <<args, proj, pc, scanOptions, issues, depIssues, assetIssues,
                   codeIssues, imgIdx, fontIdx, codeIdx, aiSuggestions, aiOutcome,
                   aiCalls, report, exitCode, trace>>

\* calculateResult on the list with one more issue
AggAppend ==
    /\ pc = "aggregate"
    /\ result # None
    /\ Len(issues) < MaxAggIssues
    /\ \E i \in AggCatalog :
           /\ issues' = Append(issues, i)
           /\ result' = Some(calculateResult(issues'))
    /\ UNCHANGED <<args, proj, pc, scanOptions, depIssues, assetIssues, codeIssues,
                   imgIdx, fontIdx, codeIdx, aiSuggestions, aiOutcome, aiCalls, report,
                   exitCode, trace>>

AggNext == AggCalculate \/ AggAppend

SpecAgg == AggInit /\ [][AggNext]_vars

-----------------------------------------------------------------------------
(* The asset scanner on its own: scanAssets called by runScanners on a     *)
(* project whose manifest declares nothing, over every tree of at most     *)
(* MaxTreeFiles files of AssetCases, no two of them under the same path.   *)

MaxTreeFiles == 2

AssetCases ==
    { AssetFile(<<"img/">>, <<"banner">>, ".gif", n, TRUE) :
        n \in {IMAGE_SIZE_WARNING, IMAGE_SIZE_WARNING + 1,
               IMAGE_SIZE_CRITICAL, IMAGE_SIZE_CRITICAL + 1} }
    \cup
    { AssetFile(<<"img/">>, <<"logo">>, ".png", n, TRUE) :
        n \in {WEBP_SUGGESTION_THRESHOLD, WEBP_SUGGESTION_THRESHOLD + 1,
               IMAGE_SIZE_CRITICAL + 1} }
    \cup
    { AssetFile(<<"img/">>, <<"icon">>, ".jpg", n, TRUE) :
        n \in {RESOLUTION_VARIANT_THRESHOLD, RESOLUTION_VARIANT_THRESHOLD + 1,
               IMAGE_SIZE_WARNING + 1} }
    \cup
    { AssetFile(<<"img/">>, <<"photo">>, ".jpeg", n, TRUE) :
        n \in {TOTAL_ASSETS_WARNING, TOTAL_ASSETS_WARNING + 1} }
    \cup
    { AssetFile(<<"fonts/">>, <<"body">>, ".ttf", n, TRUE) :
        n \in {FONT_SIZE_WARNING, FONT_SIZE_WARNING + 1} }
    \cup
    { AssetFile(<<"img/">>, <<"logo">>, ".webp", KB, TRUE),
      AssetFile(<<"shots", ".png", "/">>, <<"logo">>, ".png", 60 * KB, TRUE),
      AssetFile(<<"shots", ".png", "/">>, <<"logo">>, ".webp", KB, TRUE),
      AssetFile(<<"shots", ".webp", "/">>, <<"logo">>, ".png", KB, TRUE),
      AssetFile(<<"img/">>, <<"cover", ".jpg">>, ".jpg", 60 * KB, TRUE),
      AssetFile(<<"img/">>, <<"cover", ".jpg">>, ".webp", KB, TRUE),
      AssetFile(<<"img/">>, <<"icon", "@2x">>, ".jpg", 60 * KB, TRUE),
      AssetFile(<<"img/">>, <<"icon", "@3x">>, ".jpg", 10 * KB, TRUE),
      AssetFile(<<"other/">>, <<"icon", "@2x">>, ".jpg", 10 * KB, TRUE),
      AssetFile(<<"img/">>, <<"scan">>, ".bmp", TOTAL_ASSETS_WARNING + 1, TRUE),
      AssetFile(<<"fonts/">>, <<"body">>, ".woff2", KB, TRUE),
      AssetFile(<<"img/">>, <<"gone">>, ".png", IMAGE_SIZE_CRITICAL + 1, FALSE) }

AssetTrees ==
    {t \in Lists(AssetCases, MaxTreeFiles) :
        \A i, j \in 1..Len(t) : i # j => RelPath(t[i]) # RelPath(t[j])}

EmptyPackage == [manifest |-> Manifest(TRUE, {}, {}, 0), src |-> None]

\* the state of a run when runScanners calls scanAssets (cli.ts 130)
AssetInit ==
    /\ args = [ai |-> FALSE, apiKey |-> None, envKey |-> None, json |-> FALSE]
    /\ proj \in {Project(TRUE, TRUE, EmptyPackage, t, <<>>) : t \in AssetTrees}
    /\ pc = "scanAssets"
    /\ scanOptions = Some([ai |-> FALSE, apiKey |-> None, json |-> FALSE])
    /\ issues = <<>>
    /\ depIssues = <<>>
    /\ assetIssues = <<>>
    /\ codeIssues = <<>>
    /\ imgIdx = 1
    /\ fontIdx = 1
    /\ codeIdx = 1
    /\ result = None
    /\ aiSuggestions = None
    /\ aiOutcome = None
    /\ aiCalls = 0
    /\ report = None
    /\ exitCode = None
    /\ trace = <<"parseOptions", "scanDependencies">>

AssetNext ==
    \/ ScanAssetsBegin
    \/ ScanImage
    \/ ScanFont
    \/ CheckTotalAssetsSize

SpecAssets == AssetInit /\ [][AssetNext]_vars

-----------------------------------------------------------------------------
(* The code scanner on its own: scanCode called by runScanners on a        *)
(* project with no other finding, over every tree of at most               *)
(* MaxSourceFiles files of CodeCases, no two of them under the same path.  *)
(* A content is given by the lines its console calls are on and the        *)
(* number of calls: a line may hold several calls, and a call whose        *)
(* parenthesis is on the next line is on no line.                          *)

MaxSourceFiles == 2

ConsoleCases ==
    { <<0, <<>>>>, <<1, <<>>>>,
      <<1, <<2>>>>, <<2, <<2>>>>,
      <<3, <<2, 5, 9>>>>, <<4, <<2, 5, 9>>>>,
      <<4, <<2, 5, 9, 11>>>>,
      <<5, <<2, 5, 9, 11, 14>>>>,
      <<6, <<2, 5, 9, 11, 14, 20>>>>, <<8, <<2, 5, 9, 11, 14, 20>>>> }

CodeCases ==
    { CodeFile(<<"src/">>, <<"api">>, ".ts", TRUE,
               Content(40, c[1], c[2], 0, 0, FALSE, 0)) : c \in ConsoleCases }
    \cup
    { CodeFile(<<"src/">>, <<"Home">>, ".tsx", TRUE,
               Content(LARGE_FILE_LINES + 1, 6, <<2, 5, 9, 11, 14, 20>>, 3, 1, TRUE, 1)),
      CodeFile(<<"src/">>, <<"Home">>, ".tsx", TRUE,
               Content(40, 3, <<2, 5, 9>>, 0, 0, FALSE, 0)),
      CodeFile(<<"src/">>, <<"legacy">>, ".js", FALSE,
               Content(40, 4, <<2, 5, 9, 11>>, 0, 0, FALSE, 0)) }

CodeTrees ==
    {t \in Lists(CodeCases, MaxSourceFiles) :
        \A i, j \in 1..Len(t) : i # j => RelPath(t[i]) # RelPath(t[j])}

\* the state of a run when runScanners calls scanCode (cli.ts 133)
CodeInit ==
    /\ args = [ai |-> FALSE, apiKey |-> None, envKey |-> None, json |-> FALSE]
    /\ proj \in {Project(TRUE, TRUE, EmptyPackage, <<>>, t) : t \in CodeTrees}
    /\ pc = "scanCode"
    /\ scanOptions = Some([ai |-> FALSE, apiKey |-> None, json |-> FALSE])
    /\ issues = <<>>
    /\ depIssues = <<>>
    /\ assetIssues = <<>>
    /\ codeIssues = <<>>
    /\ imgIdx = 1
    /\ fontIdx = 1
    /\ codeIdx = 1
    /\ result = None
    /\ aiSuggestions = None
    /\ aiOutcome = None
    /\ aiCalls = 0
    /\ report = None
    /\ exitCode = None
    /\ trace = <<"parseOptions", "scanDependencies", "scanAssets">>

CodeNext ==
    \/ ScanCodeBegin
    \/ ScanCodeFile
    \/ ScanCodeReturn

SpecCode == CodeInit /\ [][CodeNext]_vars

-----------------------------------------------------------------------------
(* The dependency scanner on its own: scanDependencies called by           *)
(* runScanners on a project without assets or sources, over the manifests  *)
(* that declare at most MaxDeclared names of DepPool as production and as  *)
(* development dependencies.                                               *)

MaxDeclared == 2

DepPool == {"moment", "lodash", "axios", "node-fetch", "date-fns", "uuid", "lodash-es"}

Declared == {d \in SUBSET DepPool : Cardinality(d) <= MaxDeclared}

DepPackages ==
    { [manifest |-> Manifest(TRUE, prod, dev, other), src |-> src] :
        prod \in Declared, dev \in Declared,
        other \in {0} \cup (HIGH_DEPENDENCY_COUNT - 2)..(HIGH_DEPENDENCY_COUNT + 1),
        src \in {None, Some(<<SrcFile(TRUE, TRUE)>>)} }
    \cup {NoPackage}

\* the state of a run when runScanners calls scanDependencies (cli.ts 127)
DepInit ==
    /\ args = [ai |-> FALSE, apiKey |-> None, envKey |-> None, json |-> FALSE]
    /\ proj \in {Project(TRUE, TRUE, pk, <<>>, <<>>) : pk \in DepPackages}
    /\ pc = "scanDependencies"
    /\ scanOptions = Some([ai |-> FALSE, apiKey |-> None, json |-> FALSE])
    /\ issues = <<>>
    /\ depIssues = <<>>
    /\ assetIssues = <<>>
    /\ codeIssues = <<>>
    /\ imgIdx = 1
    /\ fontIdx = 1
    /\ codeIdx = 1
    /\ result = None
    /\ aiSuggestions = None
    /\ aiOutcome = None
    /\ aiCalls = 0
    /\ report = None
    /\ exitCode = None
    /\ trace = <<"parseOptions">>

DepNext == ScanDependencies

SpecDeps == DepInit /\ [][DepNext]_vars

-----------------------------------------------------------------------------
(* The three scanners started together: runScanners with its three calls   *)
(* in flight at once, each scanner running its own code a step at a time,  *)
(* in any order, the lists pushed in call order once all have returned.    *)
(* The run of cli.ts, which awaits each call before the next, is one of    *)
(* these schedules.  Here pc is a record: the position of each scanner     *)
(* ("call", "loop", "done", "threw") and of the callback (main), and the   *)
(* trace records each scanner when it returns.                             *)

\* the lists pushed as the scanners return, first returned first
runScannersAsReturned(d, a, c) ==
    LET IsScanner(e) == e \in {"scanDependencies", "scanAssets", "scanCode"}
        order == SelectSeq(trace, IsScanner)
        ListOf(e) == IF e = "scanDependencies" THEN d
                     ELSE IF e = "scanAssets" THEN a ELSE c
    IN  Concat([k \in 1..Len(order) |-> ListOf(order[k])])

\* runScanners 124-133: the pushes, in the order of the calls
runScanners(d, a, c) == d \o a \o c

AnyInit ==
    /\ args = [ai |-> FALSE, apiKey |-> None, envKey |-> None, json |-> FALSE]
    /\ proj \in {p \in Projects : p.pathExists /\ p.hasManifest}
    /\ pc = [main |-> "runScanners", dep |-> "call", asset |-> "call", code |-> "call"]
    /\ scanOptions = Some([ai |-> FALSE, apiKey |-> None, json |-> FALSE])
    /\ issues = <<>>
    /\ depIssues = <<>>
    /\ assetIssues = <<>>
    /\ codeIssues = <<>>
    /\ imgIdx = 1
    /\ fontIdx = 1
    /\ codeIdx = 1
    /\ result = None
    /\ aiSuggestions = None
    /\ aiOutcome = None
    /\ aiCalls = 0
    /\ report = None
    /\ exitCode = None
    /\ trace = <<"parseOptions">>

AnyScanDependencies ==
    /\ pc.main = "runScanners" /\ pc.dep = "call"
    /\ LET r == scanDependencies(proj)
       IN  IF r.threw
           THEN /\ pc' = [pc EXCEPT !.dep = "threw"]
                /\ UNCHANGED <<depIssues, trace>>
           ELSE /\ depIssues' = r.issues
                /\ pc' = [pc EXCEPT !.dep = "done"]
                /\ trace' = trace \o <<"scanDependencies">>
    /\ UNCHANGED <<args, proj, scanOptions, issues, assetIssues, codeIssues, imgIdx,
                   fontIdx, codeIdx, result, aiSuggestions, aiOutcome, aiCalls, report,
                   exitCode>>

AnyScanAssetsBegin ==
    /\ pc.main = "runScanners" /\ pc.asset = "call"
    /\ assetIssues' = <<>>
    /\ imgIdx' = 1
    /\ fontIdx' = 1
    /\ pc' = [pc EXCEPT !.asset = "loop"]
    /\ UNCHANGED <<args, proj, scanOptions, issues, depIssues, codeIssues, codeIdx,
                   result, aiSuggestions, aiOutcome, aiCalls, report, exitCode, trace>>

AnyScanImage ==
    /\ pc.main = "runScanners" /\ pc.asset = "loop"
    /\ imgIdx <= Len(ImageWalk(proj.assets))
    /\ assetIssues' = assetIssues
           \o scanImageFile(proj.root, proj.assets, ImageWalk(proj.assets)[imgIdx])
    /\ imgIdx' = imgIdx + 1
    /\ UNCHANGED <<args, proj, pc, scanOptions, issues, depIssues, codeIssues, fontIdx,
                   codeIdx, result, aiSuggestions, aiOutcome, aiCalls, report,
                   exitCode, trace>>

AnyScanFont ==
    /\ pc.main = "runScanners" /\ pc.asset = "loop"
    /\ imgIdx > Len(ImageWalk(proj.assets))
    /\ fontIdx <= Len(FontWalk(proj.assets))
    /\ assetIssues' = assetIssues \o scanFontFile(FontWalk(proj.assets)[fontIdx])
    /\ fontIdx' = fontIdx + 1
    /\ UNCHANGED <<args, proj, pc, scanOptions, issues, depIssues, codeIssues, imgIdx,
                   codeIdx, result, aiSuggestions, aiOutcome, aiCalls, report,
                   exitCode, trace>>

AnyCheckTotalAssetsSize ==
    /\ pc.main = "runScanners" /\ pc.asset = "loop"
    /\ imgIdx > Len(ImageWalk(proj.assets))
    /\ fontIdx > Len(FontWalk(proj.assets))
    /\ assetIssues' = assetIssues \o checkTotalAssetsSize(proj.assets)
    /\ pc' = [pc EXCEPT !.asset = "done"]
    /\ trace' = trace \o <<"scanAssets">>
    /\ UNCHANGED <<args, proj, scanOptions, issues, depIssues, codeIssues, imgIdx,
                   fontIdx, codeIdx, result, aiSuggestions, aiOutcome, aiCalls, report,
                   exitCode>>

AnyScanCodeBegin ==
    /\ pc.main = "runScanners" /\ pc.code = "call"
    /\ codeIssues' = <<>>
    /\ codeIdx' = 1
    /\ pc' = [pc EXCEPT !.code = "loop"]
    /\ UNCHANGED <<args, proj, scanOptions, issues, depIssues, assetIssues, imgIdx,
                   fontIdx, result, aiSuggestions, aiOutcome, aiCalls, report, exitCode,
                   trace>>

AnyScanCodeFile ==
    /\ pc.main = "runScanners" /\ pc.code = "loop"
    /\ codeIdx <= Len(proj.code)
    /\ codeIssues' = codeIssues \o scanCodeFile(proj.code[codeIdx])
    /\ codeIdx' = codeIdx + 1
    /\ UNCHANGED <<args, proj, pc, scanOptions, issues, depIssues, assetIssues, imgIdx,
                   fontIdx, result, aiSuggestions, aiOutcome, aiCalls, report,
                   exitCode, trace>>

AnyScanCodeReturn ==
    /\ pc.main = "runScanners" /\ pc.code = "loop"
    /\ codeIdx > Len(proj.code)
    /\ pc' = [pc EXCEPT !.code = "done"]
    /\ trace' = trace \o <<"scanCode">>
    /\ UNCHANGED <<args, proj, scanOptions, issues, depIssues, assetIssues, codeIssues,
                   imgIdx, fontIdx, codeIdx, result, aiSuggestions, aiOutcome, aiCalls,
                   report, exitCode>>

\* all three have returned: the pushes of runScanners, then calculateResult
\* (cli.ts 53-56)
AnyCalculateResult ==
    /\ pc.main = "runScanners"
    /\ pc.dep = "done" /\ pc.asset = "done" /\ pc.code = "done"
    /\ issues' = runScanners(depIssues, assetIssues, codeIssues)
    /\ result' = Some(calculateResult(issues'))
    /\ pc' = [pc EXCEPT !.main = "getAIAnalysis"]
    /\ trace' = trace \o <<"calculateResult">>
    /\ UNCHANGED <<args, proj, scanOptions, depIssues, assetIssues, codeIssues, imgIdx,
                   fontIdx, codeIdx, aiSuggestions, aiOutcome, aiCalls, report, exitCode>>

\* scanDependencies threw: the catch of the action callback (cli.ts 64-68)
AnyCatch ==
    /\ pc.main = "runScanners" /\ pc.dep = "threw"
    /\ exitCode' = Some(1)
    /\ pc' = [pc EXCEPT !.main = "exited"]
    /\ trace' = trace \o <<"catch", "exit">>
    /\ UNCHANGED <<args, proj, scanOptions, issues, depIssues, assetIssues, codeIssues,
                   imgIdx, fontIdx, codeIdx, result, aiSuggestions, aiOutcome, aiCalls,
                   report>>

AnyNext ==
    \/ AnyScanDependencies
    \/ AnyScanAssetsBegin
    \/ AnyScanImage
    \/ AnyScanFont
    \/ AnyCheckTotalAssetsSize
    \/ AnyScanCodeBegin
    \/ AnyScanCodeFile
    \/ AnyScanCodeReturn
    \/ AnyCalculateResult
    \/ AnyCatch

SpecAnyOrder == AnyInit /\ [][AnyNext]_vars

-----------------------------------------------------------------------------
(* Properties of the aggregator.                                           *)

\* the number of issues of severity sev in the list
NumWith(is, sev) == Cardinality({k \in 1..Len(is) : is[k].severity = sev})

\* C1: in every ScanResult the counts summary.critical, summary.warning and
\* summary.info are natural numbers and add up to the number of issues of
\* the list the aggregator was given.
C1_CountsAddUp ==
    IsSome(result) =>
        LET r == Get(result)
        IN  /\ r.issues = issues
            /\ r.summary.critical \in Nat
            /\ r.summary.warning \in Nat
            /\ r.summary.info \in Nat
            /\ r.summary.critical + r.summary.warning + r.summary.info = Len(issues)

\* a list with issues of all three severities was aggregated
C1_Witness ==
    /\ pc = "aggregate"
    /\ IsSome(result)
    /\ Len(issues) = MaxAggIssues
    /\ \A sev \in Severity : NumWith(issues, sev) >= 2

\* C2: the score is clamp(100 - 15*critical - 5*warning - info, 0, 100) of
\* the numbers of issues of each severity in the list, clamped once at the
\* end: no issues give 100, 1 critical + 2 warnings + 3 info give 72, and
\* 10 criticals give 0.
C2_ScoreFormula ==
    IsSome(result) =>
        LET c == NumWith(issues, "critical")
            w == NumWith(issues, "warning")
            i == NumWith(issues, "info")
            raw == 100 - 15 * c - 5 * w - i
            score == Get(result).score
        IN  /\ score = (IF raw < 0 THEN 0 ELSE IF raw > 100 THEN 100 ELSE raw)
            /\ (c = 0 /\ w = 0 /\ i = 0 => score = 100)
            /\ (c = 1 /\ w = 2 /\ i = 3 => score = 72)
            /\ (c = 10 /\ w = 0 /\ i = 0 => score = 0)

\* ten criticals were aggregated: the raw value is -50
C2_Witness ==
    /\ pc = "aggregate"
    /\ IsSome(result)
    /\ NumWith(issues, "critical") = 10
    /\ Len(issues) = 10
    /\ Get(result).score = 0

\* C3: the score is an integer in 0..100, and aggregating a list with one
\* more issue, of any severity, never gives a higher score.
C3_ScoreBoundedMonotone ==
    /\ [](IsSome(result) => Get(result).score \in 0..100)
    /\ [][(IsSome(result) /\ IsSome(result') /\ Len(issues') = Len(issues) + 1)
            => Get(result').score <= Get(result).score]_vars

\* a list whose raw value is below zero was extended by one more issue
C3_Witness ==
    /\ pc = "aggregate"
    /\ IsSome(result)
    /\ Len(issues) = 8
    /\ NumWith(issues, "critical") = 7
    /\ issues[8].severity = "info"
    /\ Get(result).score = 0

\* C4: summary.passed is 10 whatever the issues are.
C4_PassedIsTen ==
    IsSome(result) => Get(result).summary.passed = 10

\* a list with issues of every severity was aggregated and passed is 10
C4_Witness ==
    /\ pc = "aggregate"
    /\ IsSome(result)
    /\ Len(issues) >= 6
    /\ \A sev \in Severity : NumWith(issues, sev) >= 1
    /\ Get(result).summary.passed = SCORE_BASE_CHECKS

-----------------------------------------------------------------------------
(* Properties of a run.                                                    *)

CategoryRank(c) ==
    CASE c = "dependency" -> 1 [] c = "asset" -> 2 [] c = "code" -> 3 [] OTHER -> 0

HeavyTitles == {"Heavy dependency: " \o HEAVY_DEPS[k] : k \in 1..Len(HEAVY_DEPS)}

\* the place of a dependency issue in the emission order of the scanner
DepRank(i) ==
    IF i.title \in HeavyTitles THEN 1
    ELSE IF i.title = "Full lodash import detected" THEN 2
    ELSE IF i.title \in {"Duplicate HTTP libraries", "Duplicate date libraries"} THEN 3
    ELSE IF i.title = "High dependency count" THEN 4
    ELSE 0

\* position of the first occurrence of event e in the trace, 0 when absent
Position(e) ==
    IF e \in Range(trace)
    THEN CHOOSE k \in 1..Len(trace) :
             trace[k] = e /\ \A m \in 1..(k - 1) : trace[m] # e
    ELSE 0

\* C5: in the ScanResult the issues are those of the dependency scanner,
\* then those of the asset scanner, then those of the code scanner, each
\* carrying the category of its scanner; the dependency issues come as
\* heavy dependencies, full lodash import, duplicate pairs, dependency
\* count; and no list ever loses, reorders or changes an issue it holds.
C5_IssueOrder ==
    /\ [](IsSome(result) =>
            LET is == Get(result).issues
            IN  /\ is = depIssues \o assetIssues \o codeIssues
                /\ is = issues
                /\ \A k \in 1..Len(depIssues) :
                       depIssues[k].category = "dependency" /\ DepRank(depIssues[k]) \in 1..4
                /\ \A k \in 1..Len(assetIssues) : assetIssues[k].category = "asset"
                /\ \A k \in 1..Len(codeIssues) : codeIssues[k].category = "code"
                /\ \A k, m \in 1..Len(is) :
                       k < m => CategoryRank(is[k].category) <= CategoryRank(is[m].category)
                /\ \A k, m \in 1..Len(depIssues) :
                       k < m => DepRank(depIssues[k]) <= DepRank(depIssues[m]))
    /\ [][/\ IsPrefix(issues, issues')
          /\ IsPrefix(depIssues, depIssues')
          /\ IsPrefix(assetIssues, assetIssues')
          /\ IsPrefix(codeIssues, codeIssues')
          /\ (IsSome(result) => result' = result)]_vars

\* a finished run whose dependency scanner emitted all four kinds of issue
\* and whose asset and code scanners emitted issues too
C5_Witness ==
    /\ pc = "exited"
    /\ IsSome(report)
    /\ \A n \in 1..4 : \E k \in 1..Len(depIssues) : DepRank(depIssues[k]) = n
    /\ assetIssues # <<>>
    /\ codeIssues # <<>>
    /\ Get(report).result.issues = depIssues \o assetIssues \o codeIssues

\* C6: a run that reported exits with a non-zero code exactly when
\* summary.critical > 0, with code 0 when the list holds no critical issue
\* whatever the score, and the report comes before the exit.
C6_ExitCode ==
    /\ IsSome(exitCode) <=> pc = "exited"
    /\ (pc = "exited" /\ IsSome(report)) =>
           /\ IsSome(result)
           /\ Get(report).result = Get(result)
           /\ Get(exitCode) # 0 <=> Get(result).summary.critical > 0
           /\ NumWith(Get(result).issues, "critical") = 0 => Get(exitCode) = 0
           /\ Position("outputResults") > 0
           /\ Position("outputResults") < Position("exit")
    /\ pc = "exitCheck" => IsSome(report) /\ exitCode = None

\* a run without critical issues whose score is 0 reported and exited with 0
C6_Witness ==
    /\ pc = "exited"
    /\ IsSome(report)
    /\ Get(result).summary.critical = 0
    /\ Get(result).summary.warning > 0
    /\ Get(result).score = 0
    /\ exitCode = Some(0)

\* the key parseOptions validates: the --api-key option, else OPENAI_API_KEY
GivenKey ==
    IF IsSome(args.apiKey) /\ Len(Get(args.apiKey)) > 0 THEN args.apiKey ELSE args.envKey

Malformed(k) ==
    \/ Len(k) <= 20
    \/ ~(k[1] = "s" /\ k[2] = "k" /\ k[3] = "-")

BadConfiguration ==
    \/ ~proj.pathExists
    \/ ~proj.hasManifest
    \/ args.ai /\ (GivenKey = None \/ Get(GivenKey) = <<>> \/ Malformed(Get(GivenKey)))

\* C7: with a missing path, a missing package.json, or advisory mode on and
\* a missing or malformed key, the run exits with code 1 from parseOptions:
\* no scanner is invoked, no ScanResult is built or reported.  With
\* advisory mode off the key never makes parseOptions exit.
C7_ConfigAbort ==
    /\ BadConfiguration =>
           /\ pc \in {"parseOptions", "exited"}
           /\ scanOptions = None /\ result = None /\ report = None
           /\ issues = <<>> /\ depIssues = <<>> /\ assetIssues = <<>> /\ codeIssues = <<>>
           /\ aiCalls = 0
           /\ pc = "exited" => exitCode = Some(1) /\ trace = <<"parseOptions", "exit">>
    /\ (~args.ai /\ proj.pathExists /\ proj.hasManifest) =>
           (pc # "parseOptions" => IsSome(scanOptions))

\* advisory mode with a key of 20 characters starting with sk-: exit 1
C7_Witness ==
    /\ pc = "exited"
    /\ proj.pathExists /\ proj.hasManifest
    /\ args.ai
    /\ GivenKey = Some(ShortKey)
    /\ exitCode = Some(1)
    /\ trace = <<"parseOptions", "exit">>

\* C8: when package.json is there and cannot be parsed, the run ends in the
\* catch of the action callback with code 1: the asset and code scanners
\* do not run, no ScanResult is built, nothing is reported and the
\* advisory collaborator is not called.
C8_ManifestAbort ==
    (proj.pathExists /\ proj.hasManifest /\ ~proj.manifest.parses) =>
        /\ pc \in {"parseOptions", "scanDependencies", "exited"}
        /\ issues = <<>> /\ assetIssues = <<>> /\ codeIssues = <<>>
        /\ result = None /\ report = None
        /\ aiOutcome = None /\ aiCalls = 0
        /\ Range(trace) \cap {"scanAssets", "scanCode", "calculateResult",
                              "getAISuggestions", "outputResults"} = {}
        /\ pc = "exited" => exitCode = Some(1)

\* a project with files to scan and a broken manifest ended in the catch
C8_Witness ==
    /\ pc = "exited"
    /\ ~proj.manifest.parses
    /\ Len(proj.assets) > 0 /\ Len(proj.code) > 0
    /\ trace = <<"parseOptions", "scanDependencies", "catch", "exit">>
    /\ exitCode = Some(1)

\* C9: whatever fails in the advisory collaborator, the run is not aborted:
\* getAISuggestions returns a text, the report is emitted with the
\* ScanResult built before, and the exit code is the one of the criticals.
C9_AdvisoryNeverAborts ==
    (IsSome(aiOutcome) /\ pc = "exited") =>
        /\ IsSome(aiSuggestions)
        /\ IsSome(report)
        /\ Get(report).result = Get(result)
        /\ exitCode = Some(IF Get(result).summary.critical > 0 THEN 1 ELSE 0)

\* what the walk of a scanner has emitted after the first n files of it
Emitted(walk, n, Checks(_)) ==
    Concat([k \in 1..n |-> IF walk[k].statOk THEN Checks(walk[k]) ELSE <<>>])

ImagesEmitted(n) ==
    LET Checks(f) == imageChecks(proj.root, proj.assets, f)
    IN  Emitted(ImageWalk(proj.assets), n, Checks)

FontsEmitted(n) == Emitted(FontWalk(proj.assets), n, fontChecks)

CodeEmitted(n) == Emitted(proj.code, n, codeChecks)

Unreadable == {RelPath(f) : f \in {g \in Range(proj.assets) \cup Range(proj.code) : ~g.statOk}}

\* C10: a file that cannot be stat'ed or read yields nothing and stops
\* nothing: after each step of a walk the scanner's list is the checks of
\* the readable files visited so far, in walk order; no issue names an
\* unreadable file; and no run ends in the catch of the action callback
\* from the asset or the code scanner.
C10_SkipAndContinue ==
    /\ pc = "scanAssets.loop" =>
           /\ imgIdx \in 1..(Len(ImageWalk(proj.assets)) + 1)
           /\ fontIdx \in 1..(Len(FontWalk(proj.assets)) + 1)
           /\ assetIssues = ImagesEmitted(imgIdx - 1) \o FontsEmitted(fontIdx - 1)
    /\ pc = "scanCode.loop" =>
           /\ codeIdx \in 1..(Len(proj.code) + 1)
           /\ codeIssues = CodeEmitted(codeIdx - 1)
    /\ "scanCode" \in Range(trace) =>
           \E total \in {<<>>, checkTotalAssetsSize(proj.assets)} :
               assetIssues = ImagesEmitted(Len(ImageWalk(proj.assets)))
                             \o FontsEmitted(Len(FontWalk(proj.assets))) \o total
    /\ "calculateResult" \in Range(trace) => codeIssues = CodeEmitted(Len(proj.code))
    /\ \A k \in 1..Len(issues) :
           issues[k].file = None \/ Get(issues[k].file) \notin Unreadable
    /\ \A k \in 2..Len(trace) :
           trace[k] = "catch" => trace[k - 1] \notin {"scanAssets", "scanCode"}

\* a finished run over an unreadable image and an unreadable source file,
\* each followed in its walk by a readable file whose issues are reported
C10_Witness ==
    /\ pc = "exited"
    /\ IsSome(report)
    /\ Len(proj.code) = 2 /\ ~proj.code[1].statOk /\ proj.code[2].statOk
    /\ Len(ImageWalk(proj.assets)) = 2
    /\ ~ImageWalk(proj.assets)[1].statOk /\ ImageWalk(proj.assets)[2].statOk
    /\ \E k \in 1..Len(issues) : issues[k].file = Some(RelPath(proj.code[2]))
    /\ \E k \in 1..Len(issues) : issues[k].file = Some(RelPath(ImageWalk(proj.assets)[2]))

-----------------------------------------------------------------------------
(* Properties of the asset scanner.                                        *)

\* the issues with one of the titles `titles` the asset scanner holds for f
AssetIssuesOf(f, titles) ==
    LET Mine(i) == i.file = Some(RelPath(f)) /\ i.title \in titles
    IN  SelectSeq(assetIssues, Mine)

\* the image of the walk at position k has been through the three checks
Checked(k) == k < imgIdx /\ ImageWalk(proj.assets)[k].statOk

SizeTitles == {"Very large image", "Large image"}

\* C11: for every image the size check emits at most one issue: exactly one
\* critical when the size is above 512000 bytes, otherwise exactly one
\* warning when it is above 102400 bytes, otherwise none; a file of 102400
\* bytes gets none and one of 512000 bytes a warning.
C11_ImageSizeThresholds ==
    \A k \in 1..Len(ImageWalk(proj.assets)) :
        LET f == ImageWalk(proj.assets)[k]
            found == AssetIssuesOf(f, SizeTitles)
        IN  IF Checked(k)
            THEN /\ Len(found) <= 1
                 /\ f.size > 512000 =>
                        Len(found) = 1 /\ found[1].severity = "critical"
                 /\ (f.size <= 512000 /\ f.size > 102400) =>
                        Len(found) = 1 /\ found[1].severity = "warning"
                 /\ f.size <= 102400 => Len(found) = 0
            ELSE Len(found) = 0

\* the scanner finished on an image of exactly 500KB, which got a warning,
\* and an image of 500KB + 1, which got a critical
C11_Witness ==
    /\ pc = "scanCode"
    /\ \E k, m \in 1..Len(ImageWalk(proj.assets)) :
           LET f == ImageWalk(proj.assets)[k]
               g == ImageWalk(proj.assets)[m]
           IN  /\ f.size = 512000 /\ g.size = 512001
               /\ \E i \in Range(AssetIssuesOf(f, SizeTitles)) : i.severity = "warning"
               /\ \E i \in Range(AssetIssuesOf(g, SizeTitles)) : i.severity = "critical"

\* a readable file of the tree in the directory of f, with the basename of f
\* and the extension .webp
HasWebPSibling(f) ==
    \E g \in Range(proj.assets) :
        g.statOk /\ g.dir = f.dir /\ g.base = f.base /\ g.ext = ".webp"

\* C12: for every scanned image the WebP-alternative info issue is emitted
\* exactly when the extension is png, jpg or jpeg, the size is above 51200
\* bytes and the image has no .webp sibling of the same basename in its
\* directory, wherever else the text of the extension occurs in the path.
C12_WebPAlternative ==
    \A k \in 1..Len(ImageWalk(proj.assets)) :
        LET f == ImageWalk(proj.assets)[k]
            found == AssetIssuesOf(f, {"Consider WebP format"})
            due == /\ f.ext \in {".png", ".jpg", ".jpeg"}
                   /\ f.size > 51200
                   /\ ~HasWebPSibling(f)
        IN  IF Checked(k)
            THEN /\ Len(found) = (IF due THEN 1 ELSE 0)
                 /\ \A i \in Range(found) : i.severity = "info"
            ELSE Len(found) = 0

\* the files of the tree the per-file checks of scanImages and scanFonts
\* visit
RecognizedAssets ==
    LET Recognized(f) == f.ext \in Range(IMAGE_EXTENSIONS) \cup Range(FONT_EXTENSIONS)
    IN  SelectSeq(proj.assets, Recognized)

TotalIssues ==
    LET Total(i) == i.title = "High total assets size"
    IN  SelectSeq(assetIssues, Total)

\* C13: when the asset scanner returns it has emitted exactly one warning
\* without a file if the sizes of all image and font files of the project
\* (bmp included) add up to more than 10485760 bytes, and none otherwise;
\* that issue is the last of its list, and it is not emitted before the
\* walks are over.
C13_TotalAssets ==
    /\ pc = "scanAssets.loop" => TotalIssues = <<>>
    /\ pc = "scanCode" =>
           /\ Len(TotalIssues) =
                  (IF TotalSize(RecognizedAssets) > 10485760 THEN 1 ELSE 0)
           /\ \A i \in Range(TotalIssues) : i.severity = "warning" /\ i.file = None
           /\ TotalIssues # <<>> => assetIssues[Len(assetIssues)] = TotalIssues[1]

\* a readable file of the tree in the directory of f named as f with `tag`
\* between the basename and the extension
HasVariant(f, tag) ==
    \E g \in Range(proj.assets) :
        g.statOk /\ g.dir = f.dir /\ g.base = f.base \o <<tag>> /\ g.ext = f.ext

\* C18: an image gets at most one issue from each of the size, format and
\* resolution checks, in that order, so at most three; the resolution info
\* issue is emitted exactly when the basename holds neither @2x nor @3x,
\* the size is above 20480 bytes and the directory holds neither the @2x
\* nor the @3x variant, whatever the other two checks emitted.
C18_ResolutionVariants ==
    \A k \in 1..Len(ImageWalk(proj.assets)) :
        LET f == ImageWalk(proj.assets)[k]
            Mine(i) == i.file = Some(RelPath(f))
            own == SelectSeq(assetIssues, Mine)
            size == AssetIssuesOf(f, SizeTitles)
            format == AssetIssuesOf(f, {"Consider WebP format"})
            variants == AssetIssuesOf(f, {"Missing resolution variants"})
            due == /\ "@2x" \notin Range(f.base)
                   /\ "@3x" \notin Range(f.base)
                   /\ f.size > 20480
                   /\ ~HasVariant(f, "@2x")
                   /\ ~HasVariant(f, "@3x")
        IN  IF Checked(k)
            THEN /\ Len(size) <= 1 /\ Len(format) <= 1 /\ Len(variants) <= 1
                 /\ own = size \o format \o variants
                 /\ Len(variants) = (IF due THEN 1 ELSE 0)
                 /\ \A i \in Range(variants) : i.severity = "info"
            ELSE own = <<>>

\* the scanner finished on an image above 100KB that got the size and the
\* format issue and no resolution issue, its @3x variant being there
C18_Witness ==
    /\ pc = "scanCode"
    /\ \E k \in 1..Len(ImageWalk(proj.assets)) :
           LET g == ImageWalk(proj.assets)[k]
               OfG(i) == i.file = Some(RelPath(g))
           IN  /\ g.size > IMAGE_SIZE_WARNING
               /\ "@3x" \notin Range(g.base)
               /\ HasVariant(g, "@3x")
               /\ Len(SelectSeq(assetIssues, OfG)) = 2
               /\ AssetIssuesOf(g, {"Missing resolution variants"}) = <<>>

-----------------------------------------------------------------------------
(* Properties of the code scanner.                                         *)

ConsoleIssuesOf(f) ==
    LET Mine(i) == /\ i.file = Some(RelPath(f))
                   /\ i.title \in {"Console statement found",
                                   "Multiple console statements"}
    IN  SelectSeq(codeIssues, Mine)

\* C14: with n the number of lines of a source file that match the console
\* pattern: none gives no console issue; 1 to 3 give exactly one info issue
\* citing the first matching line and reporting n; more than 3 give exactly
\* one warning listing the first 5 matching lines at most, with an ellipsis
\* exactly when n > 5, and reporting n.
C14_ConsoleStatements ==
    \A k \in 1..Len(proj.code) :
        LET f == proj.code[k]
            n == Len(f.c.consoleLines)
            found == ConsoleIssuesOf(f)
        IN  IF k < codeIdx /\ f.statOk
            THEN /\ n = 0 => found = <<>>
                 /\ n \in 1..3 =>
                        /\ Len(found) = 1
                        /\ found[1].severity = "info"
                        /\ found[1].line = f.c.consoleLines[1]
                        /\ found[1].count = n
                 /\ n > 3 =>
                        /\ Len(found) = 1
                        /\ found[1].severity = "warning"
                        /\ Len(found[1].lines) <= 5
                        /\ IsPrefix(found[1].lines, f.c.consoleLines)
                        /\ Len(found[1].lines) = (IF n < 5 THEN n ELSE 5)
                        /\ found[1].ellipsis <=> n > 5
                        /\ found[1].count = n
            ELSE found = <<>>

-----------------------------------------------------------------------------
(* Properties of the dependency scanner.                                   *)

\* scanDependencies has returned the issues of a manifest it could parse
DepScanned == pc = "scanAssets" /\ proj.manifest.parses

\* the names the manifest declares, as production or as development
\* dependency
DeclaredNames == proj.manifest.dependencies \cup proj.manifest.devDependencies

DepIssuesTitled(titles) ==
    LET Titled(i) == i.title \in titles
    IN  SelectSeq(depIssues, Titled)

\* the row of the heavy-dependency table a heavy issue is about
TableRow(i) ==
    CHOOSE k \in 1..Len(HEAVY_DEPS) : i.title = "Heavy dependency: " \o HEAVY_DEPS[k]

\* C15: for a parsed manifest the scanner emits exactly one heavy issue for
\* each row of the heavy-dependency table whose name is declared, as
\* production or development dependency or both, and none for the other
\* rows, in table order; the issue is critical for moment and lodash and a
\* warning for every other name.
C15_HeavyDependencies ==
    DepScanned =>
        LET heavy == DepIssuesTitled(HeavyTitles)
        IN  /\ \A k \in 1..Len(HEAVY_DEPS) :
                   LET found == DepIssuesTitled({"Heavy dependency: " \o HEAVY_DEPS[k]})
                   IN  /\ Len(found) = (IF HEAVY_DEPS[k] \in DeclaredNames THEN 1 ELSE 0)
                       /\ \A i \in Range(found) :
                              i.severity = (IF HEAVY_DEPS[k] \in {"moment", "lodash"}
                                            THEN "critical" ELSE "warning")
            /\ \A a, b \in 1..Len(heavy) : a < b => TableRow(heavy[a]) < TableRow(heavy[b])
            /\ IsPrefix(heavy, depIssues)

\* moment is declared twice, as production and as development dependency,
\* and uuid once: one critical for moment, then one warning for uuid
C15_Witness ==
    /\ DepScanned
    /\ "moment" \in proj.manifest.dependencies \cap proj.manifest.devDependencies
    /\ "uuid" \in proj.manifest.devDependencies \ proj.manifest.dependencies
    /\ DepIssuesTitled(HeavyTitles) =
           <<Issue("critical", "dependency", "Heavy dependency: moment", None),
             Issue("warning", "dependency", "Heavy dependency: uuid", None)>>

\* C16: the scanner emits exactly one duplicate-HTTP warning when axios and
\* node-fetch are both declared and none otherwise, and exactly one
\* duplicate-date warning when moment and date-fns are both declared and
\* none otherwise, whether the names are production or development
\* dependencies and whatever else the manifest declares.
C16_DuplicateLibraries ==
    DepScanned =>
        LET http == DepIssuesTitled({"Duplicate HTTP libraries"})
            date == DepIssuesTitled({"Duplicate date libraries"})
        IN  /\ Len(http) = (IF {"axios", "node-fetch"} \subseteq DeclaredNames THEN 1 ELSE 0)
            /\ Len(date) = (IF {"moment", "date-fns"} \subseteq DeclaredNames THEN 1 ELSE 0)
            /\ \A i \in Range(http) \cup Range(date) : i.severity = "warning"

\* both pairs are declared, one member as production and the other as
\* development dependency, among more than 50 production dependencies:
\* one warning for each pair
C16_Witness ==
    /\ DepScanned
    /\ proj.manifest.dependencies = {"axios", "moment"}
    /\ proj.manifest.devDependencies = {"node-fetch", "date-fns"}
    /\ proj.manifest.otherProd > HIGH_DEPENDENCY_COUNT
    /\ Len(DepIssuesTitled({"Duplicate HTTP libraries"})) = 1
    /\ Len(DepIssuesTitled({"Duplicate date libraries"})) = 1

\* the number of production dependencies of the manifest
ProductionCount == Cardinality(proj.manifest.dependencies) + proj.manifest.otherProd

\* C17: the scanner emits exactly one high-dependency-count warning,
\* carrying the number of production dependencies, when that number is
\* above 50, and none otherwise: 50 give none and 51 give one, whatever the
\* development dependencies are.
C17_DependencyCount ==
    DepScanned =>
        LET found == DepIssuesTitled({"High dependency count"})
        IN  /\ Len(found) = (IF ProductionCount > 50 THEN 1 ELSE 0)
            /\ \A i \in Range(found) : i.severity = "warning" /\ i.count = ProductionCount
            /\ ProductionCount = 50 => found = <<>>
            /\ ProductionCount = 51 => Len(found) = 1 /\ found[1].count = 51

\* exactly 50 production dependencies and two development dependencies of
\* other names, one of them heavy: the heavy issue is there, no count issue
C17_Witness ==
    /\ DepScanned
    /\ ProductionCount = 50
    /\ Cardinality(proj.manifest.devDependencies \ proj.manifest.dependencies) = 2
    /\ DepIssuesTitled(HeavyTitles) # <<>>
    /\ \A i \in Range(DepIssuesTitled(HeavyTitles)) :
           HEAVY_DEPS[TableRow(i)] \in proj.manifest.devDependencies
    /\ DepIssuesTitled({"High dependency count"}) = <<>>

-----------------------------------------------------------------------------
(* Properties of the advisory call.                                        *)

\* the number of times event e is in the trace
Times(e) == Cardinality({k \in 1..Len(trace) : trace[k] = e})

\* C20: in a run getAISuggestions is called at most once and at most one
\* request is sent, whatever the outcome; it is called only with advisory
\* mode on and a key that passed validation, after the three scanners and
\* calculateResult and before outputResults; with advisory mode off it is
\* not called and the report carries no advisory text.
C20_AdvisoryAtMostOnce ==
    /\ aiCalls <= 1
    /\ Times("getAISuggestions") <= 1
    /\ IsSome(aiOutcome) <=> Times("getAISuggestions") = 1
    /\ aiCalls = 1 => IsSome(aiOutcome)
    /\ IsSome(aiOutcome) =>
           /\ args.ai
           /\ IsSome(GivenKey) /\ ~Malformed(Get(GivenKey))
           /\ IsSome(result)
           /\ \A e \in {"scanDependencies", "scanAssets", "scanCode", "calculateResult"} :
                  Position(e) > 0 /\ Position(e) < Position("getAISuggestions")
           /\ IsSome(report) => Position("getAISuggestions") < Position("outputResults")
    /\ ~args.ai =>
           /\ aiOutcome = None /\ aiCalls = 0 /\ aiSuggestions = None
           /\ IsSome(report) => Get(report).aiSuggestions = None

\* a run in advisory mode whose one request failed: it was not sent again
\* and the report carries the text of the failure
C20_Witness ==
    /\ pc = "exited"
    /\ args.ai
    /\ IsSome(aiOutcome) /\ ~Get(aiOutcome).resolves
    /\ aiCalls = 1
    /\ IsSome(report)
    /\ Get(report).aiSuggestions = Some("AI analysis failed: socket hang up")

-----------------------------------------------------------------------------
(* Properties of the scanners started together.                            *)

\* the list each scanner returns when it runs alone on the project
AloneDep == scanDependencies(proj).issues

AloneAsset ==
    ImagesEmitted(Len(ImageWalk(proj.assets)))
    \o FontsEmitted(Len(FontWalk(proj.assets)))
    \o checkTotalAssetsSize(proj.assets)

AloneCode == CodeEmitted(Len(proj.code))

\* C19: whatever the order in which the steps of the three scanners are
\* taken, each scanner returns the list it returns when it runs alone, the
\* ScanResult is the one of these three lists in call order, and a step of
\* one scanner changes neither the list nor the position of another.
C19_ScannersIndependent ==
    /\ [](/\ pc.dep = "done" => depIssues = AloneDep
          /\ pc.asset = "done" => assetIssues = AloneAsset
          /\ pc.code = "done" => codeIssues = AloneCode
          /\ IsSome(result) =>
                 /\ issues = AloneDep \o AloneAsset \o AloneCode
                 /\ Get(result) = calculateResult(AloneDep \o AloneAsset \o AloneCode)
          /\ pc.dep = "threw" => result = None)
    /\ [][/\ Cardinality({k \in 1..3 :
                  <<depIssues, assetIssues, codeIssues>>[k]
                      # <<depIssues', assetIssues', codeIssues'>>[k]}) <= 1
          /\ depIssues' # depIssues => pc.dep = "call"
          /\ assetIssues' # assetIssues =>
                 /\ pc.asset = "loop"
                 /\ <<pc'.dep, pc'.code>> = <<pc.dep, pc.code>>
                 /\ codeIdx' = codeIdx
          /\ codeIssues' # codeIssues =>
                 /\ pc.code = "loop"
                 /\ <<pc'.dep, pc'.asset>> = <<pc.dep, pc.asset>>
                 /\ <<imgIdx', fontIdx'>> = <<imgIdx, fontIdx>>]_vars

\* the code scanner returned first and the dependency scanner last, all
\* three with issues, and the ScanResult lists them in call order
C19_Witness ==
    /\ IsSome(result)
    /\ trace = <<"parseOptions", "scanCode", "scanAssets", "scanDependencies",
                 "calculateResult">>
    /\ depIssues # <<>> /\ assetIssues # <<>> /\ codeIssues # <<>>
    /\ Get(result).issues = depIssues \o assetIssues \o codeIssues

====
